---- MODULE Spec2Model ----
(***************************************************************************)
(* The native shell of shabtzak-ui (src-tauri/src/main.rs): the setup      *)
(* closure that creates the data directory, seeds the database, spawns the *)
(* api-server sidecar, and the pump task that logs the sidecar's output    *)
(* and relays the port it announces into the main window.                  *)
(*                                                                         *)
(* Text is a sequence of one-character strings; the character ESC (0x1b)   *)
(* is written "ESC".                                                       *)
(***************************************************************************)
EXTENDS Integers, Sequences, FiniteSets, TLC

\* ------------------------------------------------------------------ bounds
\* Output events the child emits, counted over all launches.
MaxLines == 2
\* Launches of the application.
MaxLaunches == 2

\* ------------------------------------------------------- program constants
\* let mut backend_port = 8000u16
DefaultPort == 8000
\* u16::MAX, the largest value port_str.parse::<u16>() accepts
U16Max == 65535

\* -------------------------------------------------------------------- text
ESC == "ESC"
Digit == {"0", "1", "2", "3", "4", "5", "6", "7", "8", "9"}
White == {" ", "\t"}
None == -1

DigitVal(c) ==
  CASE c = "0" -> 0 [] c = "1" -> 1 [] c = "2" -> 2 [] c = "3" -> 3
    [] c = "4" -> 4 [] c = "5" -> 5 [] c = "6" -> 6 [] c = "7" -> 7
    [] c = "8" -> 8 [] c = "9" -> 9

\* "Uvicorn running on"
Marker ==
  <<"U", "v", "i", "c", "o", "r", "n", " ", "r", "u", "n", "n", "i", "n", "g",
    " ", "o", "n">>

\* "http://127.0.0.1:"
UrlPrefix ==
  <<"h", "t", "t", "p", ":", "/", "/", "1", "2", "7", ".", "0", ".", "0", ".",
    "1", ":">>

\* "[api] "
LogPrefix == <<"[", "a", "p", "i", "]", " ">>

\* pat occurs in s at index i
StartsAt(s, i, pat) ==
  /\ i >= 1
  /\ i + Len(pat) - 1 <= Len(s)
  /\ (pat = <<>> \/ s[i] = pat[1])
  /\ SubSeq(s, i, i + Len(pat) - 1) = pat

\* str::contains
contains(s, pat) == \E i \in 1..(Len(s) + 1) : StartsAt(s, i, pat)

\* str::find from index `from`: the first index at which pat occurs, 0 if none
find(s, pat, from) ==
  LET hits == {i \in from..(Len(s) + 1) : StartsAt(s, i, pat)}
  IN  IF hits = {} THEN 0 ELSE CHOOSE i \in hits : \A j \in hits : i <= j

\* str::split(pat): the pieces between the non-overlapping occurrences of pat
RECURSIVE split(_, _)
split(s, pat) ==
  LET i == find(s, pat, 1)
  IN  IF i = 0
      THEN <<s>>
      ELSE <<SubSeq(s, 1, i - 1)>> \o split(SubSeq(s, i + Len(pat), Len(s)), pat)

\* Iterator::nth (0-based) over the pieces; <<>> is Option::None, <<x>> is Some(x)
nth(pieces, n) == IF n + 1 <= Len(pieces) THEN <<pieces[n + 1]>> ELSE <<>>

\* str::split_whitespace().next(): the first maximal run of non-whitespace
split_whitespace_next(s) ==
  LET starts == {i \in 1..Len(s) : s[i] \notin White}
  IN  IF starts = {}
      THEN <<>>
      ELSE LET a == CHOOSE i \in starts : \A j \in starts : i <= j
               stops == {i \in a..Len(s) : s[i] \in White}
               b == IF stops = {}
                    THEN Len(s)
                    ELSE (CHOOSE i \in stops : \A j \in stops : i <= j) - 1
           IN  <<SubSeq(s, a, b)>>

\* the digit loop of from_str_radix: checked_mul(10) then checked_add(digit)
RECURSIVE ParseDigits(_, _, _)
ParseDigits(s, i, acc) ==
  IF i > Len(s)
  THEN acc
  ELSE IF s[i] \notin Digit
       THEN None
       ELSE LET v == acc * 10 + DigitVal(s[i])
            IN  IF v > U16Max THEN None ELSE ParseDigits(s, i + 1, v)

\* str::parse::<u16>(): None for Err. An empty string and a lone sign are
\* errors, one leading "+" is accepted, "-" is an invalid digit.
parse_u16(s) ==
  IF s = <<>>
  THEN None
  ELSE IF Len(s) = 1 /\ s[1] \in {"+", "-"}
       THEN None
       ELSE IF s[1] = "+" THEN ParseDigits(s, 2, 0) ELSE ParseDigits(s, 1, 0)

\* the regex \x1b\[[0-9;]*m anchored at index i: the index of the closing "m"
\* of the match that starts at i, 0 if none starts there
AnsiMatchEnd(text, i) ==
  IF i + 1 <= Len(text) /\ text[i] = ESC /\ text[i + 1] = "["
  THEN LET stops == {j \in (i + 2)..Len(text) : text[j] \notin Digit \cup {";"}}
       IN  IF stops = {}
           THEN 0
           ELSE LET j == CHOOSE k \in stops : \A l \in stops : k <= l
                IN  IF text[j] = "m" THEN j ELSE 0
  ELSE 0

\* Regex::replace_all(text, ""): every match removed. A match holds no ESC
\* after its first character, so no match starts inside another and the
\* leftmost non-overlapping matches are all the matches.
strip_ansi_codes(text) ==
  LET starts == {i \in 1..Len(text) : text[i] = ESC /\ AnsiMatchEnd(text, i) # 0}
      removed == UNION {i..AnsiMatchEnd(text, i) : i \in starts}
      all == [i \in 1..Len(text) |-> i]
      kept == SelectSeq(all, LAMBDA i : i \notin removed)
  IN  [n \in 1..Len(kept) |-> text[kept[n]]]

\* format!("http://localhost:{}", port)
port_url(port) == "http://localhost:" \o ToString(port)

\* ------------------------------------------------------- the child's output
Press ==
  <<" ", "(", "P", "r", "e", "s", "s", " ", "C", "T", "R", "L", "+", "C", " ",
    "t", "o", " ", "q", "u", "i", "t", ")">>
Bold == <<ESC, "[", "1", "m">>
Green == <<ESC, "[", "3", "2", "m">>
Reset == <<ESC, "[", "0", "m">>

\* "Uvicorn running on http://127.0.0.1:<portText>"
Announce(portText) == Marker \o <<" ">> \o UrlPrefix \o portText

\* the line of the comment at the port parse, with uvicorn's usual tail
LinePlain == Announce(<<"8", "7", "3", "4">>) \o Press
LineShort == Announce(<<"8", "0", "0", "1">>)
\* uvicorn's coloured form: the URL in bold, reset right after the port
LineColour ==
  Marker \o <<" ">> \o Bold \o UrlPrefix \o <<"9", "0", "0", "0">> \o Reset \o Press
LineColourBefore == Marker \o <<" ">> \o Bold \o UrlPrefix \o <<"8", "0", "0", "2">>
LineOk == Green \o <<"O", "K">> \o Reset
LineMax == Announce(<<"6", "5", "5", "3", "5">>)
LineOver == Announce(<<"6", "5", "5", "3", "6">>)
LineFar == Announce(<<"9", "9", "9", "9", "9">>)
LineAbc == Announce(<<"a", "b", "c">>)
LineEmpty == Announce(<<>>)
LineGap == Announce(<<" ", "9", "9">>)
LinePlus == Announce(<<"+", "8", "0">>)
LineNoMarker ==
  <<"L", "i", "s", "t", "e", "n", " ", "o", "n", " ">> \o UrlPrefix
    \o <<"8", "0", "0", "3">>
LineUrlFirst == UrlPrefix \o <<"7", "0", "0", "0", " ">> \o Marker
LineMarkerOnly == Marker \o <<" ", "u", "n", "i", "x">>

StdoutLines == {LineOk, LineNoMarker, LineUrlFirst, LineMarkerOnly}
StderrLines ==
  {LinePlain, LineShort, LineColour, LineColourBefore, LineMax, LineOver,
   LineFar, LineAbc, LineEmpty, LineGap, LinePlus}

\* CommandEvent::Stdout(line), ::Stderr(line), ::Error(_), ::Terminated(_)
Stdout(l) == [kind |-> "Stdout", line |-> l]
Stderr(l) == [kind |-> "Stderr", line |-> l]
ErrorEvent == [kind |-> "Error", line |-> <<>>]
Terminated == [kind |-> "Terminated", line |-> <<>>]

\* what the child may emit while it runs
Events ==
  {Stdout(l) : l \in StdoutLines} \cup {Stderr(l) : l \in StderrLines}
    \cup {ErrorEvent}
\* the few events of the many-launch specification
FewEvents == {Stderr(LinePlain), Stdout(LineOk), ErrorEvent}

\* ------------------------------------------------------------ file contents
Absent == "absent"
SeedA == "seedA"
SeedB == "seedB"
Partial == "partial"
UserData == "userdata"
Templates == {Absent, SeedA, SeedB}
\* a line an earlier session left in backend.log
OldLogLine == LogPrefix \o <<"o", "l", "d">>

\* ------------------------------------------------------------------- state
VARIABLES
  launch,        \* launches of the application so far
  proc,          \* "start", "running", "setup_failed", "aborted"
  dir,           \* the data directory exists
  db,            \* contents of <data_dir>/shabtzak.db
  template,      \* contents of the bundled shabtzak.db
  shellWrites,   \* times the shell has written shabtzak.db
  io,            \* what the last setup met: mkdir, copy, sidecar
  window,        \* a window labelled "main" exists
  alive,         \* the child runs (its end of the channel is open)
  lines,         \* events the child has emitted, over all launches
  emitted,       \* events the child emitted in this launch, in order
  chan,          \* rx: events sent and not yet received
  pump,          \* "none", "spawned", "pumping", "closed", "panicked"
  consumed,      \* events the pump task received, in order
  log,           \* lines of <data_dir>/backend.log
  logAtOpen,     \* the log file as it was when this launch opened it
  buf,           \* lines held in the BufWriter
  ioFail,        \* a log write or flush has failed in this launch
  backend_port,  \* the pump task's backend_port; None before it is declared
  assigns,       \* assignments to backend_port in this launch
  evals,         \* scripts evaluated in the main window in this launch
  effects        \* the pump task's effects in this launch, in order

vars ==
  <<launch, proc, dir, db, template, shellWrites, io, window, alive, lines,
    emitted, chan, pump, consumed, log, logAtOpen, buf, ioFail, backend_port,
    assigns, evals, effects>>

fsVars == <<dir, db, template, shellWrites, io>>
pumpVars ==
  <<consumed, log, logAtOpen, buf, ioFail, backend_port, assigns, evals, effects>>

NoIo == [mkdir |-> "none", copy |-> "none", sidecar |-> "none"]

\* The process has been started and setup has not run. The data directory,
\* the database and the log may be left from an earlier installation; the
\* files need their directory.
Init ==
  /\ launch = 1
  /\ proc = "start"
  /\ dir \in BOOLEAN
  /\ db \in (IF dir THEN {Absent, UserData} ELSE {Absent})
  /\ template \in Templates
  /\ shellWrites = 0
  /\ io = NoIo
  /\ window \in BOOLEAN
  /\ alive = FALSE
  /\ lines = 0
  /\ emitted = <<>>
  /\ chan = <<>>
  /\ pump = "none"
  /\ consumed = <<>>
  /\ log \in (IF dir THEN {<<>>, <<OldLogLine>>} ELSE {<<>>})
  /\ logAtOpen = <<>>
  /\ buf = <<>>
  /\ ioFail = FALSE
  /\ backend_port = None
  /\ assigns = 0
  /\ evals = <<>>
  /\ effects = <<>>

\* ------------------------------------------------------------------ setup
\* std::fs::create_dir_all(&app_dir), its result dropped
create_dir_all(exists, mkdirOk) == exists \/ mkdirOk

\* seed_database without the !db_path.exists() test
seed_database_always(d, t, dirNow, resDir, copyOk, partial) ==
  IF resDir /\ t # Absent
  THEN IF dirNow /\ copyOk
       THEN t
       ELSE IF dirNow /\ partial THEN Partial ELSE d
  ELSE d

\* seed_database with the test inverted: if db_path.exists()
seed_database_inverted(d, t, dirNow, resDir, copyOk, partial) ==
  IF d # Absent
  THEN IF resDir /\ t # Absent
       THEN IF dirNow /\ copyOk
            THEN t
            ELSE IF dirNow /\ partial THEN Partial ELSE d
       ELSE d
  ELSE d

\* "On first launch, copy the bundled database": the new contents of
\* shabtzak.db. A copy needs the directory; a failed copy leaves no file or
\* a partial one.
seed_database(d, t, dirNow, resDir, copyOk, partial) ==
  IF d = Absent
  THEN IF resDir /\ t # Absent
       THEN IF dirNow /\ copyOk
            THEN t
            ELSE IF dirNow /\ partial THEN Partial ELSE Absent
       ELSE d
  ELSE d

\* setup_result with the copy error returned as well
setup_result_copy_fatal(copy, found, spawnOk) ==
  IF copy # "failed" /\ found /\ spawnOk THEN "running" ELSE "setup_failed"

\* Command::new_sidecar("api-server")...? and cmd.spawn()...?: the only
\* errors the closure returns
setup_result(copy, found, spawnOk) ==
  IF found /\ spawnOk THEN "running" ELSE "setup_failed"

Setup ==
  /\ proc = "start"
  /\ \E mkdirOk, resDir, copyOk, partial, found, spawnOk \in BOOLEAN :
       LET dir1 == create_dir_all(dir, mkdirOk)
           db1 == seed_database(db, template, dir1, resDir, copyOk, partial)
           tried == db = Absent /\ resDir /\ template # Absent
           copy == IF ~tried THEN "skipped"
                   ELSE IF dir1 /\ copyOk THEN "ok" ELSE "failed"
           res == setup_result(copy, found, spawnOk)
       IN  /\ dir' = dir1
           /\ db' = db1
           /\ shellWrites' = shellWrites + (IF db1 # db THEN 1 ELSE 0)
           /\ io' = [mkdir |-> IF dir THEN "exists"
                               ELSE IF mkdirOk THEN "created" ELSE "failed",
                     copy |-> copy,
                     sidecar |-> IF ~found THEN "missing"
                                 ELSE IF ~spawnOk THEN "unspawnable" ELSE "ok"]
           /\ proc' = res
           /\ alive' = (res = "running")
           /\ pump' = IF res = "running" THEN "spawned" ELSE "none"
  /\ UNCHANGED <<launch, template, window, lines, emitted, chan>>
  /\ UNCHANGED pumpVars

\* ------------------------------------------------------------------ child
\* the child writes a line (or the reader reports an error); the event goes
\* into the channel while its receiver lives
Emit(E) ==
  /\ proc = "running"
  /\ alive
  /\ lines < MaxLines
  /\ \E ev \in E :
       /\ emitted' = Append(emitted, ev)
       /\ chan' = IF pump \in {"spawned", "pumping"} THEN Append(chan, ev) ELSE chan
  /\ lines' = lines + 1
  /\ UNCHANGED <<launch, proc, window, alive, pump>>
  /\ UNCHANGED fsVars
  /\ UNCHANGED pumpVars

\* the child exits: Terminated is sent and the channel's senders are dropped
ChildExit ==
  /\ proc = "running"
  /\ alive
  /\ alive' = FALSE
  /\ emitted' = Append(emitted, Terminated)
  /\ chan' = IF pump \in {"spawned", "pumping"} THEN Append(chan, Terminated) ELSE chan
  /\ UNCHANGED <<launch, proc, window, lines, pump>>
  /\ UNCHANGED fsVars
  /\ UNCHANGED pumpVars

\* the backend works on the database named by DATABASE_URL
BackendWrite ==
  /\ proc = "running"
  /\ alive
  /\ dir
  /\ db # UserData
  /\ db' = UserData
  /\ UNCHANGED <<launch, proc, dir, template, shellWrites, io, window, alive,
                 lines, emitted, chan, pump>>
  /\ UNCHANGED pumpVars

\* --------------------------------------------------------------- pump task
\* panic!("Cannot open log file") inside a task of the async runtime: a build
\* with panic = "abort" ends the process, an unwinding build ends the task
on_panic(abortBuild) == IF abortBuild THEN "aborted" ELSE "running"

\* OpenOptions::new().create(true).append(true).open(..): the task starts
PumpOpen ==
  /\ proc = "running"
  /\ pump = "spawned"
  /\ \E openOk, abortBuild \in BOOLEAN :
       IF dir /\ openOk
       THEN /\ pump' = "pumping"
            /\ logAtOpen' = log
            /\ backend_port' = DefaultPort
            /\ UNCHANGED <<proc, chan>>
       ELSE /\ pump' = "panicked"
            /\ proc' = on_panic(abortBuild)
            /\ chan' = <<>>
            /\ UNCHANGED <<logAtOpen, backend_port>>
  /\ UNCHANGED <<launch, window, alive, lines, emitted, consumed, log, buf,
                 ioFail, assigns, evals, effects>>
  /\ UNCHANGED fsVars

\* rx.recv(): the oldest event in the channel
recv(c) == Head(c)

\* port_of without the line.contains("Uvicorn running on") test
port_of_any_line(line) ==
  LET piece == nth(split(line, UrlPrefix), 1)
  IN  IF piece = <<>>
      THEN None
      ELSE LET port_str == split_whitespace_next(piece[1])
           IN  IF port_str = <<>> THEN None ELSE parse_u16(port_str[1])

\* "Parse port from ..": Some(port) as the port, None otherwise
port_of(line) ==
  IF contains(line, Marker)
  THEN LET piece == nth(split(line, UrlPrefix), 1)
       IN  IF piece = <<>>
           THEN None
           ELSE LET port_str == split_whitespace_next(piece[1])
                IN  IF port_str = <<>> THEN None ELSE parse_u16(port_str[1])
  ELSE None

\* next_port with the parse defaulted: port_str.parse().unwrap_or(8000)
next_port_or_default(cur, port) == IF port # None THEN port ELSE DefaultPort

\* backend_port after the line: assigned only under Ok(port)
next_port(cur, port) == IF port # None THEN port ELSE cur

\* the script handed to window.eval: its three format arguments
script(url) == [global |-> url, storage |-> url, callback |-> url]

\* line_effects with the port parse moved above the log write
line_effects_eval_first(k, evaluated) ==
  (IF evaluated THEN <<<<"eval", k>>>> ELSE <<>>)
    \o <<<<"write", k>>, <<"flush", k>>>>

\* the effects of one Stdout/Stderr event, in program order
line_effects(k, evaluated) ==
  <<<<"write", k>>, <<"flush", k>>>>
    \o (IF evaluated THEN <<<<"eval", k>>>> ELSE <<>>)

\* one turn of `while let Some(event) = rx.recv().await`. writeln! copies
\* the line into the BufWriter and fails only when the writer must first
\* empty a buffer that still holds lines; flush fails only when there is
\* something to write. A failed write is reported and the line is lost, a
\* failed flush is dropped and the lines stay in the buffer.
PumpRecv ==
  /\ proc = "running"
  /\ pump = "pumping"
  /\ chan # <<>>
  /\ \E event \in {recv(chan)} :
       /\ chan' = Tail(chan)
       /\ consumed' = Append(consumed, event)
       /\ IF event.kind \in {"Stdout", "Stderr"}
          THEN \E cleaned_line \in {strip_ansi_codes(event.line)},
                  port \in {port_of(event.line)} :
                 LET k == Len(consumed) + 1
                     evaluated == port # None /\ window
                 IN  /\ \E wOk, fOk \in BOOLEAN :
                          LET buf1 == IF wOk
                                      THEN Append(buf, LogPrefix \o cleaned_line)
                                      ELSE buf
                          IN  /\ wOk \/ buf # <<>>
                              /\ fOk \/ buf1 # <<>>
                              /\ ioFail' = (ioFail \/ ~wOk \/ ~fOk)
                              /\ log' = IF fOk THEN log \o buf1 ELSE log
                              /\ buf' = IF fOk THEN <<>> ELSE buf1
                     /\ backend_port' = next_port(backend_port, port)
                     /\ assigns' = assigns + (IF port # None THEN 1 ELSE 0)
                     /\ evals' = IF evaluated
                                 THEN Append(evals, script(port_url(port)))
                                 ELSE evals
                     /\ effects' = effects \o line_effects(k, evaluated)
          ELSE UNCHANGED <<log, buf, ioFail, backend_port, assigns, evals, effects>>
  /\ UNCHANGED <<launch, proc, window, alive, lines, emitted, pump, logAtOpen>>
  /\ UNCHANGED fsVars

\* rx.recv() yields None: every sender is gone and the channel is empty. The
\* task returns and the BufWriter is dropped, which flushes what it holds.
PumpEnd ==
  /\ proc = "running"
  /\ pump = "pumping"
  /\ chan = <<>>
  /\ ~alive
  /\ pump' = "closed"
  /\ \E fOk \in BOOLEAN :
       /\ fOk \/ buf # <<>>
       /\ log' = IF fOk THEN log \o buf ELSE log
  /\ buf' = <<>>
  /\ UNCHANGED <<launch, proc, window, alive, lines, emitted, chan, consumed,
                 logAtOpen, ioFail, backend_port, assigns, evals, effects>>
  /\ UNCHANGED fsVars

\* ---------------------------------------------------------------- launches
\* the process ends (setup failed, it aborted, or the user quit) and the
\* application is started again; the bundle may have been replaced
Relaunch ==
  /\ proc # "start"
  /\ launch < MaxLaunches
  /\ launch' = launch + 1
  /\ proc' = "start"
  /\ template' \in Templates
  /\ alive' = FALSE
  /\ emitted' = <<>>
  /\ chan' = <<>>
  /\ pump' = "none"
  /\ consumed' = <<>>
  /\ \E flushed \in BOOLEAN : log' = IF flushed THEN log \o buf ELSE log
  /\ logAtOpen' = <<>>
  /\ buf' = <<>>
  /\ ioFail' = FALSE
  /\ backend_port' = None
  /\ assigns' = 0
  /\ evals' = <<>>
  /\ effects' = <<>>
  /\ UNCHANGED <<dir, db, shellWrites, io, window, lines>>

\* ---------------------------------------------------------- specifications
\* every launch of the application, with few kinds of output
Next ==
  \/ Setup
  \/ Emit(FewEvents)
  \/ ChildExit
  \/ BackendWrite
  \/ PumpOpen
  \/ PumpRecv
  \/ PumpEnd
  \/ Relaunch

Spec == Init /\ [][Next]_vars

\* one launch over an installed data directory, with every kind of output
InitPump == Init /\ dir /\ db = UserData /\ template = SeedA

NextPump ==
  \/ Setup
  \/ Emit(Events)
  \/ ChildExit
  \/ PumpOpen
  \/ PumpRecv
  \/ PumpEnd

SpecPump == InitPump /\ [][NextPump]_vars

\* ------------------------------------------------------------------ claims
\* the step in which the setup closure runs
SetupStep == proc = "start" /\ proc' # "start"

\* C1: when shabtzak.db exists as setup starts, setup leaves it as it is,
\* whatever the bundled template holds; over all launches the shell writes
\* the file at most once.
C1_ExistingDatabaseKept ==
  [][/\ (SetupStep /\ db # Absent) => db' = db
     /\ shellWrites' <= 1]_vars

\* a second launch has run setup over a database seeded by the first, with
\* a different template in the bundle
C1_Witness ==
  /\ launch = 2
  /\ proc # "start"
  /\ shellWrites = 1
  /\ db = SeedA
  /\ template = SeedB

\* C2 as stated: with no database and a template present, after setup the
\* database is the template.
C2_SeededWheneverAbsent ==
  [][(SetupStep /\ db = Absent /\ template # Absent) => db' = template]_vars

\* C2 amended: with no database and a template present, after setup the
\* database is the template when the copy succeeds; when the resource
\* directory is not resolved or the copy fails, setup goes on and the
\* database is absent or partial.
C2_SeededWhenCopySucceeds ==
  [][(SetupStep /\ db = Absent /\ template # Absent)
       => /\ io'.copy = "ok" => db' = template
          /\ io'.copy # "ok" => db' \in {Absent, Partial}]_vars

\* setup has just copied the template into an empty data directory
C2_Witness ==
  /\ proc # "start"
  /\ io.copy = "ok"
  /\ shellWrites = 1
  /\ db = template

\* C8 as stated: when the log file cannot be opened the whole process
\* aborts.
C8_OpenFailureAborts == pump = "panicked" => proc = "aborted"

\* C9: setup fails exactly when the sidecar is missing or cannot be spawned;
\* then no pump task exists, nothing is logged and no script is evaluated.
\* A failed create_dir_all or a failed copy does not fail setup: the backend
\* is spawned all the same.
C9_OnlySidecarErrorsAbort ==
  proc # "start" =>
    /\ (proc = "setup_failed") <=> (io.sidecar # "ok")
    /\ proc = "setup_failed" =>
         /\ pump = "none"
         /\ ~alive
         /\ consumed = <<>>
         /\ effects = <<>>
         /\ evals = <<>>
         /\ backend_port = None
    /\ io.sidecar = "ok" => pump # "none"

\* setup failed on an unspawnable sidecar after the copy had failed too
C9_Witness ==
  /\ proc = "setup_failed"
  /\ io.sidecar = "unspawnable"
  /\ io.copy = "failed"
  /\ pump = "none"

\* ----------------------------------------------- claims about the pump task
IsLine(e) == e.kind \in {"Stdout", "Stderr"}
LineEvents(c) == SelectSeq(c, IsLine)
Min(S) == CHOOSE i \in S : \A j \in S : i <= j
IsDigits(t) == t # <<>> /\ \A i \in 1..Len(t) : t[i] \in Digit

\* the number a digit string denotes
RECURSIVE NumVal(_)
NumVal(ds) ==
  IF ds = <<>>
  THEN 0
  ELSE NumVal(SubSeq(ds, 1, Len(ds) - 1)) * 10 + DigitVal(ds[Len(ds)])

\* the text from index `from` up to the first character of `stops`, or to `to`
RunUpTo(line, from, to, stops) ==
  LET ends == {j \in from..to : line[j] \in stops}
  IN  SubSeq(line, from, IF ends = {} THEN to ELSE Min(ends) - 1)

\* The announcement format of the interface: "Uvicorn running on", later
\* "http://127.0.0.1:" and right after it the port as ASCII digits.
AnnouncedDigits(line) ==
  LET m == find(line, Marker, 1)
      u == IF m = 0 THEN 0 ELSE find(line, UrlPrefix, m + Len(Marker))
      from == u + Len(UrlPrefix)
      ends == {j \in from..Len(line) : line[j] \notin Digit}
  IN  IF u = 0
      THEN <<>>
      ELSE SubSeq(line, from, IF ends = {} THEN Len(line) ELSE Min(ends) - 1)

IsAnnouncement(line) ==
  IsDigits(AnnouncedDigits(line)) /\ NumVal(AnnouncedDigits(line)) <= U16Max

AnnouncedPort(line) == NumVal(AnnouncedDigits(line))

\* the URL a port stands for, and the script that carries it
UrlOf(p) == "http://localhost:" \o ToString(p)
ScriptOf(p) == [global |-> UrlOf(p), storage |-> UrlOf(p), callback |-> UrlOf(p)]

HasEscape(t) == \E i \in 1..Len(t) : AnsiMatchEnd(t, i) # 0

\* C3 as stated: for every line received, the port parse gives the same on
\* the raw line and on the stripped line, and the log holds the line with
\* every escape sequence removed.
C3_RawAndStrippedAgree ==
  /\ \A i \in 1..Len(consumed) :
       IsLine(consumed[i]) =>
         port_of(consumed[i].line) = port_of(strip_ansi_codes(consumed[i].line))
  /\ \A i \in 1..Len(log) : ~HasEscape(log[i])

\* C4 as stated: backend_port is assigned, and a script evaluated, at most
\* once in a launch.
C4_AtMostOneUpdate == assigns <= 1 /\ Len(evals) <= 1

\* C4 amended: backend_port starts at 8000 and is assigned at most once for
\* each received line that holds "Uvicorn running on", so more than once in
\* a launch when the announcement repeats; a script is evaluated at most
\* once for each assignment.
C4_AtMostOneUpdatePerLine ==
  LET marked == {i \in 1..Len(consumed) :
                   IsLine(consumed[i]) /\ contains(consumed[i].line, Marker)}
  IN  /\ (pump = "pumping" /\ assigns = 0) => backend_port = DefaultPort
      /\ assigns <= Cardinality(marked)
      /\ Len(evals) <= assigns

\* two announcements were received and each one assigned the port
C4_Witness ==
  /\ consumed = <<Stderr(LinePlain), Stderr(LineShort)>>
  /\ assigns = 2
  /\ Len(evals) = 2
  /\ backend_port = 8001

\* C5 as stated: when announcements with different ports were received and
\* the stream is consumed, the main window holds the URL of the last
\* announcement in all three places, and so does backend_port.
C5_LastAnnouncementShown ==
  LET anns == SelectSeq(consumed, LAMBDA e : IsLine(e) /\ IsAnnouncement(e.line))
      ports == {AnnouncedPort(anns[i].line) : i \in 1..Len(anns)}
  IN  (pump = "closed" /\ window /\ Cardinality(ports) >= 2) =>
        /\ backend_port = AnnouncedPort(anns[Len(anns)].line)
        /\ evals # <<>>
        /\ evals[Len(evals)] = ScriptOf(AnnouncedPort(anns[Len(anns)].line))

\* C6 as stated: a received line in the announcement format makes the port
\* parse yield its port, backend_port become it, and the script carry
\* "http://localhost:<port>" in its three places.
C6_AnnouncementYieldsPort ==
  (consumed # <<>> /\ IsLine(consumed[Len(consumed)])
     /\ IsAnnouncement(consumed[Len(consumed)].line)) =>
    LET line == consumed[Len(consumed)].line
    IN  /\ port_of(line) = AnnouncedPort(line)
        /\ backend_port = AnnouncedPort(line)
        /\ window => (evals # <<>> /\ evals[Len(evals)] = ScriptOf(AnnouncedPort(line)))

\* the step in which the pump task receives event e
Receives(e) == consumed' = Append(consumed, e)
PortUntouched ==
  /\ backend_port' = backend_port
  /\ assigns' = assigns
  /\ evals' = evals
  /\ pump' = pump
  /\ proc' = proc

\* the port text of C7: what stands right after the first
\* "http://127.0.0.1:", up to white space or the end of the line
PortText(line) ==
  LET u == find(line, UrlPrefix, 1)
  IN  IF u = 0
      THEN <<>>
      ELSE RunUpTo(line, u + Len(UrlPrefix), Len(line), White)

\* C7 as stated: an event that is no line, a line without "Uvicorn running
\* on", and a line whose port text is not digits in 0..65535 leave the port
\* and the window as they are.
C7_NonAnnouncementIgnored ==
  [][\A e \in Events \cup {Terminated} :
       (/\ Receives(e)
        /\ \/ ~IsLine(e)
           \/ ~contains(e.line, Marker)
           \/ ~(IsDigits(PortText(e.line)) /\ NumVal(PortText(e.line)) <= U16Max))
       => PortUntouched]_vars

\* the token the parse reads: the first run of non-white characters in the
\* text between the first "http://127.0.0.1:" and the next one (or the end)
ParsedToken(line) ==
  LET u == find(line, UrlPrefix, 1)
      from == u + Len(UrlPrefix)
      nxt == find(line, UrlPrefix, from)
      to == IF nxt = 0 THEN Len(line) ELSE nxt - 1
      starts == {j \in from..to : line[j] \notin White}
  IN  IF u = 0 \/ starts = {}
      THEN <<>>
      ELSE RunUpTo(line, Min(starts), to, White)

\* digits in 0..65535, with one "+" allowed before them
IsU16Text(t) ==
  LET ds == IF t # <<>> /\ t[1] = "+" THEN Tail(t) ELSE t
  IN  IsDigits(ds) /\ NumVal(ds) <= U16Max

\* C7 amended: an event that is no line, a line without "Uvicorn running
\* on", and a line in which the first white-space-delimited token after the
\* first "http://127.0.0.1:" is missing or is not digits in 0..65535 with an
\* optional leading "+", leave the port and the window as they are.
C7_UnparsedIgnored ==
  [][\A e \in Events \cup {Terminated} :
       (/\ Receives(e)
        /\ \/ ~IsLine(e)
           \/ ~contains(e.line, Marker)
           \/ ~IsU16Text(ParsedToken(e.line)))
       => PortUntouched]_vars

\* an out-of-range announcement was received after a port was discovered,
\* and the discovered port is still current
C7_Witness ==
  /\ consumed = <<Stderr(LinePlain), Stderr(LineOver)>>
  /\ backend_port = 8734
  /\ assigns = 1

\* what the log gains from the received events when every write succeeds
ExpectedLog(c) ==
  [i \in 1..Len(LineEvents(c)) |-> LogPrefix \o strip_ansi_codes(LineEvents(c)[i].line)]

\* the scripts the received events call for
ExpectedEvals(c) ==
  LET hits == SelectSeq(LineEvents(c), LAMBDA e : port_of(e.line) # None)
  IN  [i \in 1..Len(hits) |-> ScriptOf(port_of(hits[i].line))]

EffectRank(kind) == CASE kind = "write" -> 1 [] kind = "flush" -> 2 [] kind = "eval" -> 3

\* effects follow the order of the events, and for one event the write
\* precedes the flush precedes the evaluation
EffectsInOrder ==
  \A i, j \in 1..Len(effects) :
    i < j =>
      \/ effects[i][2] < effects[j][2]
      \/ /\ effects[i][2] = effects[j][2]
         /\ EffectRank(effects[i][1]) < EffectRank(effects[j][1])

IsPrefixOf(a, b) == Len(a) <= Len(b) /\ SubSeq(b, 1, Len(a)) = a

OrderKept ==
  /\ IsPrefixOf(consumed, emitted)
  /\ window => evals = ExpectedEvals(consumed)
  /\ EffectsInOrder
  /\ \A k \in 1..Len(consumed) :
       IsLine(consumed[k]) =>
         \E i, j \in 1..Len(effects) :
           i < j /\ effects[i] = <<"write", k>> /\ effects[j] = <<"flush", k>>
  /\ pump = "closed" => (~alive /\ chan = <<>> /\ consumed = emitted)

\* C10 as stated: the log gains exactly the received lines, prefixed and
\* stripped, in order and flushed after each; scripts follow the order of
\* their lines, each after its line's write; the task ends only when the
\* stream closes.
C10_LogHoldsEveryLine ==
  pump \in {"pumping", "closed"} =>
    /\ log = logAtOpen \o ExpectedLog(consumed)
    /\ buf = <<>>
    /\ OrderKept

\* C10 amended: the same, the log holding exactly the received lines as
\* long as no write and no flush of the log has failed; once the log is
\* open the task leaves the loop only when the stream has closed, and it
\* goes back to no earlier state.
C10_LogHoldsEveryLineUnlessIoFails ==
  /\ [](pump \in {"pumping", "closed"} =>
          /\ ~ioFail => (log = logAtOpen \o ExpectedLog(consumed) /\ buf = <<>>)
          /\ OrderKept)
  /\ [][/\ pump = "pumping" => pump' \in {"pumping", "closed"}
        /\ pump = "closed" => pump' = "closed"
        /\ (pump = "pumping" /\ pump' = "closed") => (~alive /\ chan = <<>>)]_vars

\* a coloured line and an announcement were logged and the announcement's
\* script evaluated, on top of an older log, and the stream has closed
C10_Witness ==
  /\ pump = "closed"
  /\ ~ioFail
  /\ window
  /\ logAtOpen = <<OldLogLine>>
  /\ consumed = <<Stdout(LineOk), Stderr(LinePlain), Terminated>>
  /\ log = <<OldLogLine, LogPrefix \o <<"O", "K">>, LogPrefix \o LinePlain>>
  /\ evals = <<ScriptOf(8734)>>
  /\ effects = <<<<"write", 1>>, <<"flush", 1>>, <<"write", 2>>, <<"flush", 2>>,
                 <<"eval", 2>>>>

====
